---- MODULE Spec2Model ----
(***************************************************************************)
(* glimpse: time-delayed "reveal" sessions kept as one JSON file each.     *)
(* The module models the session store (JsonStorageService), the four CLI  *)
(* commands (create, list, status, reveal) run one after another, and the  *)
(* code scheme (generateCode, validateCode, normalizeCode).                *)
(*                                                                         *)
(* Strings the code processes character by character (codes, option       *)
(* values, session ids) are sequences of one-character strings.  Opaque    *)
(* strings (URLs, descriptions, names) are TLA+ strings.                   *)
(* A JavaScript number is a record [nan, v]; a JavaScript value that holds *)
(* a timestamp is a record [ty, t] with ty one of "Date", "string" (the    *)
(* ISO-8601 text of the instant t), "null" and "undefined".                *)
(*                                                                         *)
(* Three specifications: Spec runs the commands one after another;         *)
(* CodeSpec applies the functions of the code scheme to inputs drawn in    *)
(* its initial state; RaceSpec runs reveal invocations that overlap, each  *)
(* in the steps separated by its awaits.                                   *)
(*                                                                         *)
(* Outside the model: failures of the file system (mkdir, writeFile, and   *)
(* readFile other than a missing file) and files written by anything but   *)
(* the commands.                                                           *)
(***************************************************************************)
EXTENDS Integers, Sequences, FiniteSets, TLC

\* ---------------------------------------------------------------- bounds
\* number of session ids the random id generator draws from
MaxSessions == 2
\* number of targets the sessions directory has room for
MaxStoredTargets == 2
\* the wall clock runs from StartMinutes to StartMinutes + MaxMinutes
\* (minutes since the epoch)
MaxMinutes == 1
StartMinutes == 2
\* generateCode is called with lengths up to MaxLength (and with its default)
MaxLength == 3
\* validateCode and normalizeCode are given strings of up to MaxCodeLen
\* characters
MaxCodeLen == 3
\* number of reveal invocations that overlap
MaxInvocations == 2

\* ------------------------------------------------------ JavaScript numbers
Num(n) == [nan |-> FALSE, v |-> n]

NaN == [nan |-> TRUE, v |-> 0]

NumAdd(a, b) == IF a.nan \/ b.nan THEN NaN ELSE Num(a.v + b.v)

NumMul(a, b) == IF a.nan \/ b.nan THEN NaN ELSE Num(a.v * b.v)

\* every comparison with NaN is false
NumLt(a, b) == ~a.nan /\ ~b.nan /\ a.v < b.v

NumGt(a, b) == ~a.nan /\ ~b.nan /\ a.v > b.v

NumGe(a, b) == ~a.nan /\ ~b.nan /\ a.v >= b.v

\* ------------------------------------------------------------- characters
Digits == <<"0", "1", "2", "3", "4", "5", "6", "7", "8", "9">>

LowerCase == <<"a", "b", "c", "d", "e", "f", "g", "h", "i", "j", "k", "l", "m",
               "n", "o", "p", "q", "r", "s", "t", "u", "v", "w", "x", "y", "z">>

UpperCase == <<"A", "B", "C", "D", "E", "F", "G", "H", "I", "J", "K", "L", "M",
               "N", "O", "P", "Q", "R", "S", "T", "U", "V", "W", "X", "Y", "Z">>

IsDigit(c) == \E d \in 1..10 : Digits[d] = c

DigitVal(c) == (CHOOSE d \in 1..10 : Digits[d] = c) - 1

\* String.prototype.toUpperCase on one character of the modelled character set
UpperOf == [c \in {LowerCase[k] : k \in 1..26} |->
              UpperCase[CHOOSE k \in 1..26 : LowerCase[k] = c]]

toUpperCaseChar(c) == IF c \in DOMAIN UpperOf THEN UpperOf[c] ELSE c

\* stands for the one character U+00DF (sharp s), whose upper case is "SS"
SharpS == "sz"

\* String.prototype.toUpperCase: character by character, except that the
\* upper case of the sharp s is two characters
RECURSIVE toUpperCaseFrom(_, _)
toUpperCaseFrom(s, k) ==
  IF k > Len(s) THEN <<>>
  ELSE (IF s[k] = SharpS THEN <<"S", "S">> ELSE <<toUpperCaseChar(s[k])>>)
       \o toUpperCaseFrom(s, k + 1)

toUpperCase(s) ==
  IF \A k \in 1..Len(s) : s[k] # SharpS
  THEN [k \in 1..Len(s) |-> toUpperCaseChar(s[k])]
  ELSE toUpperCaseFrom(s, 1)

\* s.replace(/-/g, '')
RECURSIVE RemoveDashes(_)
RemoveDashes(s) ==
  IF s = <<>> THEN <<>>
  ELSE IF Head(s) = "-" THEN RemoveDashes(Tail(s))
  ELSE <<Head(s)>> \o RemoveDashes(Tail(s))

\* ------------------------------------------------------------ parseInt(s, 10)
RECURSIVE SkipWhiteSpace(_)
SkipWhiteSpace(s) ==
  IF s # <<>> /\ Head(s) = " " THEN SkipWhiteSpace(Tail(s)) ELSE s

RECURSIVE DigitPrefix(_)
DigitPrefix(s) ==
  IF s = <<>> \/ ~IsDigit(Head(s)) THEN <<>>
  ELSE <<Head(s)>> \o DigitPrefix(Tail(s))

RECURSIVE DecimalValue(_, _)
DecimalValue(s, acc) ==
  IF s = <<>> THEN acc ELSE DecimalValue(Tail(s), acc * 10 + DigitVal(Head(s)))

\* leading white space skipped, optional sign, longest prefix of decimal
\* digits; NaN when that prefix is empty; anything after it is ignored
parseInt(str) ==
  LET t == SkipWhiteSpace(str)
      signed == t # <<>> /\ Head(t) \in {"-", "+"}
      negative == t # <<>> /\ Head(t) = "-"
      ds == DigitPrefix(IF signed THEN Tail(t) ELSE t)
  IN IF ds = <<>> THEN NaN
     ELSE Num((IF negative THEN -1 ELSE 1) * DecimalValue(ds, 0))

\* ------------------------------------------------------------- code scheme
\* the 32 symbols 0-9 and A-V, I, L, O and U among them
BASE32HEX_ALPHABET ==
  <<"0", "1", "2", "3", "4", "5", "6", "7", "8", "9", "A", "B", "C", "D", "E", "F",
    "G", "H", "I", "J", "K", "L", "M", "N", "O", "P", "Q", "R", "S", "T", "U", "V">>

CROCKFORD_ALPHABET ==
  <<"0", "1", "2", "3", "4", "5", "6", "7", "8", "9", "A", "B", "C", "D", "E", "F",
    "G", "H", "J", "K", "M", "N", "P", "Q", "R", "S", "T", "V", "W", "X", "Y", "Z">>

DefaultLength == 8

DefaultSeparator == <<"-">>

DefaultSeparatorPosition == 4

\* the loop without the test `i < length - 1`
RECURSIVE generateCodeLoopTrailing(_, _, _, _, _, _)
generateCodeLoopTrailing(i, code, length, separator, separatorPosition, bytes) ==
  IF i >= length THEN code
  ELSE LET index == bytes[i + 1] % Len(CROCKFORD_ALPHABET)
           withSymbol == Append(code, CROCKFORD_ALPHABET[index + 1])
           withSeparator ==
             IF i = separatorPosition - 1
             THEN withSymbol \o separator
             ELSE withSymbol
       IN generateCodeLoopTrailing(i + 1, withSeparator, length, separator,
                                   separatorPosition, bytes)

\* the loop of generateCode from iteration i on, code being the text so far
RECURSIVE generateCodeLoop(_, _, _, _, _, _)
generateCodeLoop(i, code, length, separator, separatorPosition, bytes) ==
  IF i >= length THEN code
  ELSE LET index == bytes[i + 1] % Len(CROCKFORD_ALPHABET)
           withSymbol == Append(code, CROCKFORD_ALPHABET[index + 1])
           withSeparator ==
             IF i = separatorPosition - 1 /\ i < length - 1
             THEN withSymbol \o separator
             ELSE withSymbol
       IN generateCodeLoop(i + 1, withSeparator, length, separator,
                           separatorPosition, bytes)

\* bytes: the values the random source put into the Uint8Array
generateCode(length, separator, separatorPosition, bytes) ==
  generateCodeLoop(0, <<>>, length, separator, separatorPosition, bytes)

\* a normalization that also decodes the look-alikes: O as 0, I and L as 1
normalizeCodeDecoding(code) ==
  LET upper == toUpperCase(RemoveDashes(code))
  IN [k \in 1..Len(upper) |->
        IF upper[k] = "O" THEN "0"
        ELSE IF upper[k] \in {"I", "L"} THEN "1"
        ELSE upper[k]]

normalizeCode(code) == toUpperCase(RemoveDashes(code))

\* the validation without the upper-casing
validateCodeCaseSensitive(code) ==
  LET cleanCode == RemoveDashes(code)
  IN \A k \in 1..Len(cleanCode) :
       \E a \in 1..Len(CROCKFORD_ALPHABET) : CROCKFORD_ALPHABET[a] = cleanCode[k]

validateCode(code) ==
  LET cleanCode == toUpperCase(RemoveDashes(code))
  IN \A k \in 1..Len(cleanCode) :
       \E a \in 1..Len(CROCKFORD_ALPHABET) : CROCKFORD_ALPHABET[a] = cleanCode[k]

\* ------------------------------------------------------- timestamp values
MsPerMinute == 60 * 1000

Undefined == [ty |-> "undefined", t |-> Num(0)]

Null == [ty |-> "null", t |-> Num(0)]

\* a Date object whose time value is the number n (NaN: an Invalid Date)
Date(n) == [ty |-> "Date", t |-> n]

\* the ISO-8601 text of the instant n
IsoString(n) == [ty |-> "string", t |-> n]

\* Date.prototype.toJSON: null for an Invalid Date, else toISOString()
toJSON(date) == IF date.t.nan THEN Null ELSE IsoString(date.t)

\* a serializer that writes Date values only and drops every other value
JSONvalueDatesOnly(x) == IF x.ty = "Date" THEN toJSON(x) ELSE Undefined

\* what JSON.stringify writes for a property value: a Date through toJSON,
\* a string or null as it is, an undefined property not at all
JSONvalue(x) == IF x.ty = "Date" THEN toJSON(x) ELSE x

\* new Date(value): an ISO string parses to its instant, null converts to
\* 0 (the epoch), undefined to NaN
NewDate(x) ==
  CASE x.ty = "Date" -> x
    [] x.ty = "string" -> Date(x.t)
    [] x.ty = "null" -> Date(Num(0))
    [] OTHER -> Date(NaN)

\* ------------------------------------------------------------ data model
\* an optional display name (options.name): undefined or a string
NoName == [def |-> FALSE, s |-> ""]

Name(s) == [def |-> TRUE, s |-> s]

\* RVTarget
RVTarget(code, targetUrl, targetDescription, targetSource, revealed, revealedAt) ==
  [code |-> code, targetUrl |-> targetUrl, targetDescription |-> targetDescription,
   targetSource |-> targetSource, revealed |-> revealed, revealedAt |-> revealedAt]

\* RVSession
RVSession(id, name, targets, createdAt, revealAt) ==
  [id |-> id, name |-> name, targets |-> targets, createdAt |-> createdAt,
   revealAt |-> revealAt]

\* the value of `RVSession | null` when there is no session
NullSession == RVSession(<<>>, NoName, <<>>, Null, Null)

\* ------------------------------------------------------- JsonStorageService
\* JSON.stringify(session, null, 2); the text is modelled by the JSON tree
\* it denotes, so JSON.parse of the text gives the same record back
JSONstringify(session) ==
  [id |-> session.id,
   name |-> session.name,
   targets |-> [k \in 1..Len(session.targets) |->
                  [session.targets[k] EXCEPT !.revealedAt = JSONvalue(@)]],
   createdAt |-> JSONvalue(session.createdAt),
   revealAt |-> JSONvalue(session.revealAt)]

\* the sessions directory after saveSession(session): the file named by the
\* session's id is created or overwritten, every other file is kept
saveSession(dir, session) ==
  [id \in DOMAIN dir \cup {session.id} |->
     IF id = session.id THEN JSONstringify(session) ELSE dir[id]]

\* getSession(id): null when the file does not exist; createdAt and revealAt
\* are converted with new Date; `session.revealedAt` is not a property of the
\* session record, so the third conversion never runs and the targets are
\* returned as JSON.parse produced them
getSession(dir, id) ==
  IF id \notin DOMAIN dir THEN NullSession
  ELSE LET session == dir[id]
       IN [session EXCEPT !.createdAt = NewDate(@), !.revealAt = NewDate(@)]

\* getAllSessions(): the possible results.  readdir gives the files in an
\* order the file system chooses; the stable sort puts newer createdAt first
\* and keeps that order among equal createdAt
getAllSessions(dir) ==
  LET ids == DOMAIN dir
      n == Cardinality(ids)
      orders == {p \in [1..n -> ids] :
                   /\ \A a, b \in 1..n : a # b => p[a] # p[b]
                   /\ \A a, b \in 1..n :
                        a < b => dir[p[a]].createdAt.t.v >= dir[p[b]].createdAt.t.v}
  IN {[k \in 1..n |-> getSession(dir, p[k])] : p \in orders}

\* --------------------------------------------------------- UnsplashService
\* photo.description || photo.alt_description || 'No description available'
\* ("" stands for both null and the empty string: each is falsy)
fetchRandomImage(photo) ==
  [url |-> photo.regular,
   description |-> IF photo.description # "" THEN photo.description
                   ELSE IF photo.alt_description # "" THEN photo.alt_description
                   ELSE "No description available",
   sourceUrl |-> photo.html]

\* ------------------------------------------------------------------ inputs
\* session ids: randomBytes(8).toString('hex'); the hexadecimal text is
\* shortened to that of one byte
SessionIdOf(k) == <<"a", Digits[k + 1]>>

SessionIds == {SessionIdOf(k) : k \in 1..MaxSessions}

\* command lines of create: the values of --targets, --duration and --name
CommandLine(targets, duration, name) ==
  [targets |-> targets, duration |-> duration, name |-> name]

CreateCommandLines ==
  {CommandLine(<<"1">>, <<"1">>, NoName),
   CommandLine(<<"2">>, <<"0">>, Name("trial")),
   CommandLine(<<"2", ".", "5">>, <<"-", "1">>, NoName),
   CommandLine(<<"1">>, <<"s", "o", "o", "n">>, Name("trial")),
   CommandLine(<<"a", "b", "c">>, <<"1">>, NoName),
   CommandLine(<<"0">>, <<"1">>, NoName),
   CommandLine(<<"1", "1">>, <<"1">>, NoName),
   CommandLine(<<"-", "1">>, <<"1">>, NoName)}

\* what one iteration of create's loop gets from outside: the contents of the
\* Uint8Array after the random source filled it, and the photo the provider
\* answers with (the fields fetchRandomImage reads)
TargetInputs ==
  {[bytes |-> <<0, 1, 2, 3, 4, 5, 6, 7>>,
    photo |-> [regular |-> "https://images.example/1",
               description |-> "a pier at dusk", alt_description |-> "pier",
               html |-> "https://unsplash.example/1"]],
   [bytes |-> <<10, 43, 108, 255, 32, 16, 17, 18>>,
    photo |-> [regular |-> "https://images.example/2",
               description |-> "", alt_description |-> "",
               html |-> "https://unsplash.example/2"]]}

\* codes typed by the user: the two codes TargetInputs generates, one as
\* printed and one in lower case without separator, and a code of no target
CodeArgs ==
  {<<"0", "1", "2", "3", "-", "4", "5", "6", "7">>,
   <<"a", "b", "c", "z", "0", "g", "h", "j">>,
   <<"Z", "Z", "Z", "Z", "-", "Z", "Z", "Z", "Z">>}

\* ------------------------------------------------------------------- state
\* files: the sessions directory, file name (session id) -> JSON content
\* now:   the wall clock, milliseconds since the epoch
\* last:  what the latest invocation was given and what it did
\* call:  a call of a function of the code scheme: its arguments and, once
\*        it returned, its result
\* running: the reveal invocations that overlap, invocation -> its position
\*        and its local variables
VARIABLES files, now, last, call, running

vars == <<files, now, last, call, running>>

MaxTime == (StartMinutes + MaxMinutes) * MsPerMinute

\* the instants the clock can show after some more time has passed
Later(t) == {t + d * MsPerMinute : d \in 0..1} \cap 0..MaxTime

Min(S) == CHOOSE x \in S : \A y \in S : x <= y

\* number of targets in the sessions directory
RECURSIVE StoredTargets(_)
StoredTargets(dir) ==
  IF DOMAIN dir = {} THEN 0
  ELSE LET id == CHOOSE x \in DOMAIN dir : TRUE
       IN Len(dir[id].targets)
          + StoredTargets([x \in DOMAIN dir \ {id} |-> dir[x]])

\* no call of the code scheme
NoCall ==
  [fn |-> "none", length |-> 0, separator |-> <<>>, separatorPosition |-> 0,
   bytes |-> <<>>, code |-> <<>>, done |-> TRUE, result |-> <<>>]

\* no overlapping invocations
NoRunning == [p \in {} |-> 0]

NoInvocation ==
  [cmd |-> "none", exit |-> 0, wrote |-> {}, saved |-> NullSession,
   targetsOpt |-> <<>>, fetches |-> 0, fetchFailed |-> FALSE,
   arg |-> <<>>, found |-> FALSE, sid |-> <<>>, idx |-> 0, already |-> FALSE,
   now |-> 0, force |-> FALSE, prompted |-> FALSE, answer |-> FALSE,
   all |-> FALSE, revealed |-> FALSE, view |-> "none", shown |-> <<>>]

Init ==
  /\ files = [id \in {} |-> NullSession]
  /\ now = StartMinutes * MsPerMinute
  /\ last = NoInvocation
  /\ call = NoCall
  /\ running = NoRunning

\* ------------------------------------------------------------------ create
\* the targets array after n iterations of the loop
createTargets(n, inputs) ==
  [i \in 1..n |->
     LET code == generateCode(DefaultLength, DefaultSeparator,
                              DefaultSeparatorPosition, inputs[i].bytes)
         image == fetchRandomImage(inputs[i].photo)
     IN RVTarget(code, image.url, image.description, "unsplash", FALSE, Undefined)]

\* targetCount < 1 || targetCount > 10
invalidTargetCount(targetCount) ==
  NumLt(targetCount, Num(1)) \/ NumGt(targetCount, Num(10))

\* new Date(createdAt.getTime() + duration * 60 * 1000)
revealAtOf(createdAt, duration) ==
  Date(NumAdd(createdAt.t, NumMul(NumMul(duration, Num(60)), Num(1000))))

\* number of iterations of `for (let i = 0; i < targetCount; i++)`
loopCount(targetCount) ==
  IF targetCount.nan \/ targetCount.v < 0 THEN 0 ELSE targetCount.v

\* glimpse create --targets .. --duration .. [--name ..]
\* hasKey: UNSPLASH_ACCESS_KEY is set; failAt: which fetch fails (0: none).
\* The session id is taken to differ from the ids of the stored sessions
\* (a 64-bit random draw; the code does not look for an existing file), and
\* a session is stored only while the directory has room for its targets.
createCommand ==
  \E t \in Later(now), hasKey \in BOOLEAN :
    LET base == [NoInvocation EXCEPT !.cmd = "create"]
    IN /\ now' = t
       /\ IF ~hasKey
          THEN /\ last' = [base EXCEPT !.exit = 1]
               /\ UNCHANGED files
          ELSE \E options \in CreateCommandLines :
                 LET targetCount == parseInt(options.targets)
                     duration == parseInt(options.duration)
                     parsed == [base EXCEPT !.targetsOpt = options.targets]
                 IN IF invalidTargetCount(targetCount)
                    THEN /\ last' = [parsed EXCEPT !.exit = 1]
                         /\ UNCHANGED files
                    ELSE \E sessionId \in SessionIds \ DOMAIN files,
                            failAt \in 0..loopCount(targetCount) :
                           IF failAt > 0
                           THEN /\ last' = [parsed EXCEPT !.exit = 1,
                                                          !.fetches = failAt,
                                                          !.fetchFailed = TRUE]
                                /\ UNCHANGED files
                           ELSE \E inputs \in [1..loopCount(targetCount) -> TargetInputs] :
                                  StoredTargets(files) + loopCount(targetCount)
                                    <= MaxStoredTargets /\
                                  LET createdAt == Date(Num(t))
                                      revealAt == revealAtOf(createdAt, duration)
                                      targets == createTargets(loopCount(targetCount), inputs)
                                      session == RVSession(sessionId, options.name, targets,
                                                           createdAt, revealAt)
                                  IN /\ files' = saveSession(files, session)
                                     /\ last' = [parsed EXCEPT
                                                   !.fetches = loopCount(targetCount),
                                                   !.wrote = {sessionId},
                                                   !.saved = session]

\* ------------------------------------------------------------------ reveal
\* the stored code compared as it is printed, separator and all
matchingTargetsExact(session, normalizedCode) ==
  {k \in 1..Len(session.targets) : session.targets[k].code = normalizedCode}

\* indexes of the targets of session whose code matches normalizedCode
matchingTargets(session, normalizedCode) ==
  {k \in 1..Len(session.targets) :
     toUpperCase(normalizeCode(session.targets[k].code)) = normalizedCode}

\* the elapsed-time test taken against the creation time
canRevealAtCreatedAt(t, session) == NumGe(Num(t), session.createdAt.t)

\* the elapsed-time test with a strict comparison
canRevealAtStrict(t, session) == NumGt(Num(t), session.revealAt.t)

\* now >= targetSession.revealAt
canRevealAt(t, session) == NumGe(Num(t), session.revealAt.t)

\* the already-revealed test left out
alreadyRevealedNever(target) == FALSE

\* if (target.revealed)
alreadyRevealed(target) == target.revealed

\* the test of the answer inverted
cancelledInverted(forceReveal) == forceReveal

\* if (!answers.forceReveal)
cancelled(forceReveal) == ~forceReveal

\* the target marked and every other target of the session reset
markRevealedOnly(session, index, t) ==
  [session EXCEPT
     !.targets = [k \in 1..Len(@) |->
                    IF k = index
                    THEN [@[k] EXCEPT !.revealed = TRUE, !.revealedAt = Date(Num(t))]
                    ELSE [@[k] EXCEPT !.revealed = FALSE, !.revealedAt = Undefined]]]

\* the flag set without the timestamp
markRevealedFlagOnly(session, index, t) ==
  [session EXCEPT !.targets[index].revealed = TRUE]

\* the session after lines 80-81
markRevealed(session, index, t) ==
  [session EXCEPT !.targets[index].revealed = TRUE,
                  !.targets[index].revealedAt = Date(Num(t))]

\* glimpse reveal code [--force]; answer: the reply to the confirmation
\* prompt if it is asked; t1, t2: the two readings of the clock
revealCommand ==
  \E allSessions \in getAllSessions(files), code \in CodeArgs :
    LET normalizedCode == toUpperCase(normalizeCode(code))
        hits == {m \in 1..Len(allSessions) :
                   matchingTargets(allSessions[m], normalizedCode) # {}}
    IN IF hits = {}
       THEN \E force \in BOOLEAN, t1 \in Later(now) :
              /\ now' = t1
              /\ last' = [NoInvocation EXCEPT !.cmd = "reveal", !.force = force,
                                              !.exit = 1]
              /\ UNCHANGED files
       ELSE LET targetSession == allSessions[Min(hits)]
                targetIndex == Min(matchingTargets(targetSession, normalizedCode))
                target == targetSession.targets[targetIndex]
                found == [NoInvocation EXCEPT !.cmd = "reveal", !.found = TRUE,
                                              !.sid = targetSession.id,
                                              !.idx = targetIndex]
            IN \E force \in BOOLEAN, t1 \in Later(now) :
                 LET canReveal == canRevealAt(t1, targetSession)
                     prompted == ~canReveal /\ ~force
                 IN IF alreadyRevealed(target)
                    THEN /\ now' = t1
                         /\ last' = [found EXCEPT !.force = force, !.already = TRUE]
                         /\ UNCHANGED files
                    ELSE \E answer \in IF prompted THEN BOOLEAN ELSE {FALSE} :
                           IF prompted /\ cancelled(answer)
                           THEN /\ now' = t1
                                /\ last' = [found EXCEPT !.now = t1, !.prompted = TRUE]
                                /\ UNCHANGED files
                           ELSE \E t2 \in Later(t1) :
                                  LET revealed == markRevealed(targetSession, targetIndex, t2)
                                  IN /\ now' = t2
                                     /\ files' = saveSession(files, revealed)
                                     /\ last' = [found EXCEPT
                                                   !.force = force, !.now = t1,
                                                   !.prompted = prompted,
                                                   !.answer = answer,
                                                   !.wrote = {targetSession.id},
                                                   !.saved = revealed]

\* -------------------------------------------------------------------- list
\* the filter with --revealed keeping a session as soon as one target is
\* revealed
listFilterSomeRevealed(session, all, revealed) ==
  IF revealed
  THEN \E k \in 1..Len(session.targets) : session.targets[k].revealed
  ELSE IF ~all
  THEN \E k \in 1..Len(session.targets) : ~session.targets[k].revealed
  ELSE TRUE

\* the filter of list: --revealed is looked at first, then --all
listFilter(session, all, revealed) ==
  IF revealed
  THEN \A k \in 1..Len(session.targets) : session.targets[k].revealed
  ELSE IF ~all
  THEN \E k \in 1..Len(session.targets) : ~session.targets[k].revealed
  ELSE TRUE

\* glimpse list [--all] [--revealed]; shown: the ids printed, in order
listCommand ==
  \E all \in BOOLEAN, revealed \in BOOLEAN, t \in Later(now),
     sessions \in getAllSessions(files) :
    LET filteredSessions == SelectSeq(sessions, LAMBDA s : listFilter(s, all, revealed))
    IN /\ now' = t
       /\ last' = [NoInvocation EXCEPT
                     !.cmd = "list", !.all = all, !.revealed = revealed,
                     !.shown = [k \in 1..Len(filteredSessions) |-> filteredSessions[k].id]]
       /\ UNCHANGED files

\* ------------------------------------------------------------------ status
\* glimpse status code: the session whose id is code, else the first target
\* whose normalized code matches, else exit 1
statusCommand ==
  \E allSessions \in getAllSessions(files), code \in SessionIds \cup CodeArgs :
    LET session == getSession(files, code)
        normalizedCode == toUpperCase(normalizeCode(code))
        hits == {m \in 1..Len(allSessions) :
                   matchingTargets(allSessions[m], normalizedCode) # {}}
        base == [NoInvocation EXCEPT !.cmd = "status", !.arg = code]
        shown == IF session # NullSession
                 THEN [base EXCEPT !.view = "session", !.sid = session.id]
                 ELSE IF hits # {}
                 THEN LET s == allSessions[Min(hits)]
                      IN [base EXCEPT
                            !.view = "target", !.found = TRUE, !.sid = s.id,
                            !.idx = Min(matchingTargets(s, normalizedCode))]
                 ELSE [base EXCEPT !.exit = 1]
    IN \E t \in Later(now) :
         /\ now' = t
         /\ last' = shown
         /\ UNCHANGED files

\* ----------------------------------------------------------- specification
\* the commands run one after another, each to its end
Next ==
  \/ createCommand /\ UNCHANGED <<call, running>>
  \/ listCommand /\ UNCHANGED <<call, running>>
  \/ statusCommand /\ UNCHANGED <<call, running>>
  \/ revealCommand /\ UNCHANGED <<call, running>>

Spec == Init /\ [][Next]_vars

\* ------------------------------------------------- calls of the code scheme
\* values a byte of the Uint8Array can hold: below, at and above the size of
\* the alphabet
ByteValues == {0, 31, 32, 50, 255}

ByteValuesOfDefaultCalls == {9, 50}

Separators == {<<"-">>, <<"_">>}

\* characters of the strings given to validateCode and normalizeCode
CodeChars ==
  {"-", "0", "9", "a", "Z", "I", "i", "L", "l", "O", "o", "U", "u", " ", SharpS}

RECURSIVE StringsUpTo(_, _)
StringsUpTo(chars, n) ==
  IF n = 0 THEN {<<>>}
  ELSE LET shorter == StringsUpTo(chars, n - 1)
       IN shorter \cup {Append(str, c) : str \in shorter, c \in chars}

\* generateCode(length, separator, separatorPosition), with the bytes the
\* random source will give
GenerateCall(length, separator, separatorPosition, bytes) ==
  [NoCall EXCEPT !.fn = "generateCode", !.length = length,
                 !.separator = separator,
                 !.separatorPosition = separatorPosition, !.bytes = bytes,
                 !.done = FALSE]

\* validateCode(code) and normalizeCode(code)
CodeCall(fn, code) == [NoCall EXCEPT !.fn = fn, !.code = code, !.done = FALSE]

\* the calls: generateCode with small parameters of every shape, generateCode
\* with its default parameters, validateCode and normalizeCode of every
\* string of at most MaxCodeLen characters
CodeCalls ==
  {GenerateCall(length, separator, separatorPosition, bytes) :
     <<length, separator, separatorPosition, bytes>> \in
       UNION {{<<n, sep, pos, b>> : sep \in Separators,
                                    pos \in (-1)..(MaxLength + 1),
                                    b \in [1..n -> ByteValues]} :
              n \in 0..MaxLength}}
  \cup {GenerateCall(DefaultLength, DefaultSeparator, DefaultSeparatorPosition, b) :
          b \in [1..DefaultLength -> ByteValuesOfDefaultCalls]}
  \cup {CodeCall(fn, code) : fn \in {"validateCode", "normalizeCode"},
                              code \in StringsUpTo(CodeChars, MaxCodeLen)}

CodeInit ==
  /\ call \in CodeCalls
  /\ files = [id \in {} |-> NullSession]
  /\ now = StartMinutes * MsPerMinute
  /\ last = NoInvocation
  /\ running = NoRunning

generateCodeCall ==
  /\ call.fn = "generateCode" /\ ~call.done
  /\ call' = [call EXCEPT
                 !.done = TRUE,
                 !.result = generateCode(call.length, call.separator,
                                         call.separatorPosition, call.bytes)]
  /\ UNCHANGED <<files, now, last, running>>

validateCodeCall ==
  /\ call.fn = "validateCode" /\ ~call.done
  /\ call' = [call EXCEPT !.done = TRUE, !.result = validateCode(call.code)]
  /\ UNCHANGED <<files, now, last, running>>

normalizeCodeCall ==
  /\ call.fn = "normalizeCode" /\ ~call.done
  /\ call' = [call EXCEPT !.done = TRUE, !.result = normalizeCode(call.code)]
  /\ UNCHANGED <<files, now, last, running>>

CodeNext == generateCodeCall \/ validateCodeCall \/ normalizeCodeCall

CodeSpec == CodeInit /\ [][CodeNext]_vars

\* --------------------------------------------- overlapping reveal invocations
\* An invocation of reveal runs in the steps its awaits separate: the read
\* (getAllSessions, the lookup, the tests, and the marking when no prompt is
\* needed), the answer to the prompt (and the marking), and the write
\* (saveSession).  Between two steps of one invocation the others may run.
Invocations == 1..MaxInvocations

\* an invocation not started yet.  stale: another invocation wrote the
\* session file after this one read it; saved: its saveSession has returned
NotStarted ==
  [pc |-> "start", code |-> <<>>, force |-> FALSE, exit |-> 0,
   session |-> NullSession, index |-> 0, stale |-> FALSE, saved |-> FALSE]

\* the store after `create --targets 2 --duration 1` at the first instant
RaceInit ==
  /\ now = StartMinutes * MsPerMinute
  /\ \E inputs \in [1..2 -> TargetInputs] :
       LET createdAt == Date(Num(StartMinutes * MsPerMinute))
           session == RVSession(SessionIdOf(1), NoName, createTargets(2, inputs),
                                createdAt, revealAtOf(createdAt, parseInt(<<"1">>)))
       IN /\ inputs[1] # inputs[2]
          /\ files = saveSession([id \in {} |-> NullSession], session)
  /\ last = NoInvocation
  /\ call = NoCall
  /\ running = [p \in Invocations |-> NotStarted]

\* lines 20-54 (and 80-81 when no prompt is needed)
revealRead(p) ==
  /\ running[p].pc = "start"
  /\ \E allSessions \in getAllSessions(files), code \in CodeArgs,
        force \in BOOLEAN, t1 \in Later(now) :
       LET normalizedCode == toUpperCase(normalizeCode(code))
           hits == {m \in 1..Len(allSessions) :
                      matchingTargets(allSessions[m], normalizedCode) # {}}
           started == [running[p] EXCEPT !.code = code, !.force = force]
       IN IF hits = {}
          THEN /\ now' = t1
               /\ running' = [running EXCEPT
                                ![p] = [started EXCEPT !.pc = "done", !.exit = 1]]
          ELSE LET targetSession == allSessions[Min(hits)]
                   targetIndex == Min(matchingTargets(targetSession, normalizedCode))
                   found == [started EXCEPT !.session = targetSession,
                                            !.index = targetIndex]
               IN IF alreadyRevealed(targetSession.targets[targetIndex])
                  THEN /\ now' = t1
                       /\ running' = [running EXCEPT
                                        ![p] = [found EXCEPT !.pc = "done"]]
                  ELSE IF ~canRevealAt(t1, targetSession) /\ ~force
                  THEN /\ now' = t1
                       /\ running' = [running EXCEPT
                                        ![p] = [found EXCEPT !.pc = "prompt"]]
                  ELSE \E t2 \in Later(t1) :
                         /\ now' = t2
                         /\ running' =
                              [running EXCEPT
                                 ![p] = [found EXCEPT
                                           !.pc = "save",
                                           !.session = markRevealed(targetSession,
                                                                    targetIndex, t2)]]
  /\ UNCHANGED <<files, last, call>>

\* lines 64-81: the user answers the prompt
revealAnswer(p) ==
  /\ running[p].pc = "prompt"
  /\ \E forceReveal \in BOOLEAN, t2 \in Later(now) :
       /\ now' = t2
       /\ running' =
            [running EXCEPT
               ![p] = IF cancelled(forceReveal)
                      THEN [running[p] EXCEPT !.pc = "done"]
                      ELSE [running[p] EXCEPT
                              !.pc = "save",
                              !.session = markRevealed(running[p].session,
                                                       running[p].index, t2)]]
  /\ UNCHANGED <<files, last, call>>

\* line 83: the file is written whole from the invocation's copy
revealSave(p) ==
  /\ running[p].pc = "save"
  /\ files' = saveSession(files, running[p].session)
  /\ running' =
       [q \in Invocations |->
          IF q = p THEN [running[q] EXCEPT !.pc = "done", !.saved = TRUE]
          ELSE IF running[q].pc \in {"prompt", "save"}
                  /\ running[q].session.id = running[p].session.id
          THEN [running[q] EXCEPT !.stale = TRUE]
          ELSE running[q]]
  /\ UNCHANGED <<now, last, call>>

RaceNext ==
  \E p \in Invocations : revealRead(p) \/ revealAnswer(p) \/ revealSave(p)

RaceSpec == RaceInit /\ [][RaceNext]_vars

\* -------------------------------------------------------------- properties
\* the target a value of `last` names
FoundTarget(dir, inv) == dir[inv.sid].targets[inv.idx]

\* a timestamp property is present
Present(x) == x.ty # "undefined"

\* C1: a target's persisted revealed flag goes from false to true only in a
\* reveal invocation in which the clock read was at or after the session's
\* revealAt, or --force was given, or the user answered yes to the prompt.
RevealGate ==
  [][\A id \in DOMAIN files \cap DOMAIN files' :
       \A k \in 1..Len(files[id].targets) :
         ( /\ k <= Len(files'[id].targets)
           /\ ~files[id].targets[k].revealed
           /\ files'[id].targets[k].revealed )
         => /\ last'.cmd = "reveal"
            /\ \/ NumGe(Num(last'.now), getSession(files, id).revealAt.t)
               \/ last'.force
               \/ (last'.prompted /\ last'.answer)]_vars

\* a reveal that went through on the user's yes, before revealAt
RevealGateWitness ==
  /\ last.cmd = "reveal" /\ last.wrote # {}
  /\ ~last.force /\ last.prompted /\ last.answer
  /\ FoundTarget(files, last).revealed
  /\ ~NumGe(Num(last.now), getSession(files, last.sid).revealAt.t)

\* C2: once a target's revealed flag is true in its session file, it is true
\* in every later state of that file, and its revealedAt stays present.
RevealOneWay ==
  [][\A id \in DOMAIN files :
       \A k \in 1..Len(files[id].targets) :
         files[id].targets[k].revealed
         => /\ id \in DOMAIN files'
            /\ k <= Len(files'[id].targets)
            /\ files'[id].targets[k].revealed
            /\ Present(files'[id].targets[k].revealedAt)]_vars

\* the file of a session was rewritten by a reveal while another of its
\* targets was already revealed
RevealOneWayWitness ==
  /\ last.cmd = "reveal" /\ last.wrote # {}
  /\ \E k \in 1..Len(files[last.sid].targets) :
       /\ k # last.idx
       /\ files[last.sid].targets[k].revealed
       /\ files[last.sid].targets[k].revealedAt # FoundTarget(files, last).revealedAt

\* C3: in every session file, a target has revealedAt if and only if it is
\* revealed, and a present revealedAt is at or after the session's createdAt.
RevealedAtInvariant ==
  \A id \in DOMAIN files :
    \A k \in 1..Len(files[id].targets) :
      LET target == files[id].targets[k]
      IN /\ Present(target.revealedAt) <=> target.revealed
         /\ Present(target.revealedAt)
            => NumGe(NewDate(target.revealedAt).t, NewDate(files[id].createdAt).t)

\* a file with a revealed target next to an unrevealed one
RevealedAtWitness ==
  \E id \in DOMAIN files :
    \E j, k \in 1..Len(files[id].targets) :
      /\ files[id].targets[j].revealed
      /\ NewDate(files[id].targets[j].revealedAt).t.v > NewDate(files[id].createdAt).t.v
      /\ ~files[id].targets[k].revealed

\* C4: every session persisted by create has a revealAt at or after its
\* createdAt, whatever the value of --duration.
RevealAtNotBeforeCreatedAt ==
  \A id \in DOMAIN files :
    /\ files[id].revealAt.ty = "string"
    /\ NumGe(files[id].revealAt.t, files[id].createdAt.t)

\* the value of --targets is a decimal integer in 1..10
TargetsOptionInRange(option) ==
  /\ option # <<>>
  /\ \A k \in 1..Len(option) : IsDigit(option[k])
  /\ DecimalValue(option, 0) \in 1..10

\* C5: a create whose --targets is not an integer in 1..10 exits with code 1,
\* fetches nothing and writes nothing; every persisted session has between 1
\* and 10 targets.
InvalidTargetsRejected ==
  /\ (last.cmd = "create" /\ ~TargetsOptionInRange(last.targetsOpt))
     => (last.exit = 1 /\ last.fetches = 0 /\ last.wrote = {})
  /\ \A id \in DOMAIN files : Len(files[id].targets) \in 1..10

\* C6: create writes a session file only after every fetch succeeded, the
\* file then holds exactly targetCount unrevealed targets; a failed fetch
\* ends create with code 1, is the last fetch, and leaves the store as it was.
CreateAtomic ==
  [][last'.cmd = "create"
     => /\ files' # files
           => /\ ~last'.fetchFailed /\ last'.exit = 0
              /\ \E id \in DOMAIN files' \ DOMAIN files :
                   /\ DOMAIN files' = DOMAIN files \cup {id}
                   /\ \A other \in DOMAIN files : files'[other] = files[other]
                   /\ Num(Len(files'[id].targets)) = parseInt(last'.targetsOpt)
                   /\ last'.fetches = Len(files'[id].targets)
                   /\ \A k \in 1..Len(files'[id].targets) :
                        /\ ~files'[id].targets[k].revealed
                        /\ ~Present(files'[id].targets[k].revealedAt)
        /\ last'.fetchFailed
           => /\ last'.exit = 1
              /\ files' = files
              /\ NumGe(parseInt(last'.targetsOpt), Num(last'.fetches))]_vars

\* C7: a reveal of a target that is already revealed, with or without
\* --force, writes nothing: the flag and the revealedAt stay as they were.
ReRevealIdempotent ==
  [][( /\ last'.cmd = "reveal" /\ last'.found
       /\ FoundTarget(files, last').revealed )
     => /\ last'.wrote = {}
        /\ files' = files]_vars

\* a forced reveal of a target that was revealed before
ReRevealWitness ==
  /\ last.cmd = "reveal" /\ last.found /\ last.force /\ last.wrote = {}
  /\ FoundTarget(files, last).revealed
  /\ last.exit = 0

\* C8: a reveal before revealAt, without --force, that the user declines
\* leaves every session file as it was, the target unrevealed.
DeclineLeavesStore ==
  [][( /\ last'.cmd = "reveal" /\ last'.found
       /\ ~FoundTarget(files, last').revealed
       /\ ~NumGe(Num(last'.now), getSession(files, last'.sid).revealAt.t)
       /\ ~last'.force /\ ~last'.answer )
     => /\ files' = files
        /\ ~FoundTarget(files', last').revealed
        /\ ~Present(FoundTarget(files', last').revealedAt)]_vars

\* a declined prompt with two session files in the store
DeclineWitness ==
  /\ last.cmd = "reveal" /\ last.found /\ last.prompted /\ ~last.answer
  /\ ~FoundTarget(files, last).revealed
  /\ Cardinality(DOMAIN files) = 2

\* a timestamp as a Date of the same instant
AsDate(x) == IF x.ty = "string" THEN Date(x.t) ELSE x

\* session with every timestamp it holds as a Date
WithDates(session) ==
  [session EXCEPT
     !.createdAt = AsDate(@),
     !.revealAt = AsDate(@),
     !.targets = [k \in 1..Len(@) |-> [@[k] EXCEPT !.revealedAt = AsDate(@)]]]

\* C9: getSession(id) after saveSession(session) returns the saved session
\* with every timestamp (createdAt, revealAt, each revealedAt) as a Date.
StoreRoundTrip ==
  \A id \in last.wrote : getSession(files, id) = WithDates(last.saved)

\* the ids list printed
ShownIds == {last.shown[k] : k \in 1..Len(last.shown)}

SomeUnrevealed(id) ==
  \E k \in 1..Len(files[id].targets) : ~files[id].targets[k].revealed

AllRevealed(id) ==
  \A k \in 1..Len(files[id].targets) : files[id].targets[k].revealed

\* C10 as stated: without flags list shows the sessions with an unrevealed
\* target, with --all every session, with --revealed the sessions whose
\* targets are all revealed, for every combination of the flags.
ListShows ==
  last.cmd = "list"
  => /\ (~last.all /\ ~last.revealed)
        => ShownIds = {id \in DOMAIN files : SomeUnrevealed(id)}
     /\ last.all => ShownIds = DOMAIN files
     /\ last.revealed => ShownIds = {id \in DOMAIN files : AllRevealed(id)}

\* C10 amended: --all shows every session only when --revealed is absent;
\* --revealed decides, with or without --all.
ListShowsRevealedFirst ==
  last.cmd = "list"
  => /\ Len(last.shown) = Cardinality(ShownIds)
     /\ (~last.all /\ ~last.revealed)
        => ShownIds = {id \in DOMAIN files : SomeUnrevealed(id)}
     /\ (last.all /\ ~last.revealed) => ShownIds = DOMAIN files
     /\ last.revealed => ShownIds = {id \in DOMAIN files : AllRevealed(id)}

\* list --all --revealed over a store with a fully revealed session and one
\* that is not
ListShowsWitness ==
  /\ last.cmd = "list" /\ last.all /\ last.revealed
  /\ ShownIds # {} /\ ShownIds # DOMAIN files
  /\ \E id \in DOMAIN files : SomeUnrevealed(id) /\ ~AllRevealed(id)

\* the ids of the sessions holding a target whose normalized code is the
\* normalized argument
SessionsWithCode(dir, arg) ==
  {id \in DOMAIN dir :
     \E k \in 1..Len(dir[id].targets) :
       normalizeCode(dir[id].targets[k].code) = normalizeCode(arg)}

ZeroDurationEligible ==
  [][\A id \in DOMAIN files :
       ( /\ files[id].revealAt.ty = "string"
         /\ files[id].revealAt.t = files[id].createdAt.t )
       => /\ canRevealAt(now', getSession(files, id))
          /\ ( /\ last'.cmd = "reveal" /\ last'.found /\ last'.sid = id
                /\ ~FoundTarget(files, last').revealed )
             => /\ ~last'.prompted
                /\ last'.wrote = {id}
                /\ FoundTarget(files', last').revealed]_vars

\* an unforced reveal at the very instant the session was created
ZeroDurationWitness ==
  /\ last.cmd = "reveal" /\ last.wrote # {} /\ ~last.force /\ ~last.prompted
  /\ files[last.sid].revealAt.t = files[last.sid].createdAt.t
  /\ Num(last.now) = files[last.sid].createdAt.t

\* C18: a reveal that goes through changes, in the whole store, only the
\* revealed flag and the revealedAt of its target: the session's id, name,
\* createdAt, revealAt, the number and order of its targets, its other
\* targets, the target's code, URL, description and source, and every other
\* session file are as before.
RevealFrame ==
  [][(last'.cmd = "reveal" /\ last'.wrote # {})
     => /\ DOMAIN files' = DOMAIN files
        /\ \A other \in DOMAIN files \ {last'.sid} : files'[other] = files[other]
        /\ Len(files'[last'.sid].targets) = Len(files[last'.sid].targets)
        /\ [files'[last'.sid] EXCEPT
              !.targets[last'.idx].revealed = FoundTarget(files, last').revealed,
              !.targets[last'.idx].revealedAt = FoundTarget(files, last').revealedAt]
             = files[last'.sid]]_vars

\* the 32 symbols: the digits and the upper-case letters without I, L, O, U
Alphabet32 ==
  ({Digits[k] : k \in 1..10} \cup {UpperCase[k] : k \in 1..26})
    \ {"I", "L", "O", "U"}

\* the characters of str that are no character of the separator
NonSeparator(str, separator) ==
  SelectSeq(str, LAMBDA c : \A k \in 1..Len(separator) : separator[k] # c)

\* C13: the i-th non-separator character of generateCode's result is the
\* symbol number (byte i mod 32) of the alphabet; the non-separator
\* characters are among the 32 symbols and there are exactly length of them.
GeneratedSymbols ==
  (call.fn = "generateCode" /\ call.done)
  => LET symbols == NonSeparator(call.result, call.separator)
     IN /\ Cardinality(Alphabet32) = 32
        /\ Len(symbols) = call.length
        /\ \A i \in 1..call.length :
             /\ symbols[i] = CROCKFORD_ALPHABET[(call.bytes[i] % 32) + 1]
             /\ symbols[i] \in Alphabet32

\* a code with its separator made from bytes above the size of the alphabet
GeneratedSymbolsWitness ==
  /\ call.fn = "generateCode" /\ call.done
  /\ Len(call.result) > call.length
  /\ \A i \in 1..call.length : call.bytes[i] >= 32
  /\ \E i, j \in 1..call.length : call.bytes[i] # call.bytes[j]

\* C14: the result of generateCode is its symbols with the separator put in
\* once, right after symbol number separatorPosition, when
\* 1 <= separatorPosition < length, and its symbols alone otherwise; with the
\* default parameters it has 9 characters, the one at index 4 the separator.
SeparatorPlacement ==
  (call.fn = "generateCode" /\ call.done)
  => LET symbols == [i \in 1..call.length |->
                       CROCKFORD_ALPHABET[(call.bytes[i] % 32) + 1]]
         position == call.separatorPosition
     IN /\ call.result =
             IF 1 <= position /\ position < call.length
             THEN SubSeq(symbols, 1, position) \o call.separator
                  \o SubSeq(symbols, position + 1, call.length)
             ELSE symbols
        /\ ( /\ call.length = 8 /\ call.separator = <<"-">> /\ position = 4 )
           => /\ Len(call.result) = 9
              /\ call.result[4 + 1] = "-"

\* the separator position is the last symbol: no separator is put in
SeparatorPlacementWitness ==
  /\ call.fn = "generateCode" /\ call.done
  /\ call.length >= 2 /\ call.separatorPosition = call.length
  /\ Len(call.result) = call.length

\* what is left of the character c after removing separators and upper-casing
\* is in the alphabet
Acceptable(c) ==
  \/ c = "-"
  \/ \A j \in 1..Len(toUpperCase(<<c>>)) : toUpperCase(<<c>>)[j] \in Alphabet32

\* C15: validateCode returns, for every string, true if and only if every
\* character left after removing the '-' and upper-casing is one of the 32
\* symbols, whatever the case of the input: true for the empty string and for
\* separators only, false for a string containing I, L, O or U in either case.
ValidateCodeTotal ==
  (call.fn = "validateCode" /\ call.done)
  => /\ call.result \in BOOLEAN
     /\ call.result <=> \A k \in 1..Len(call.code) : Acceptable(call.code[k])
     /\ call.result = validateCode(toUpperCase(call.code))
     /\ (\A k \in 1..Len(call.code) : call.code[k] = "-") => call.result
     /\ (\E k \in 1..Len(call.code) :
           call.code[k] \in {"I", "L", "O", "U", "i", "l", "o", "u"})
        => ~call.result

\* a valid code in lower case with a separator
ValidateCodeWitness ==
  /\ call.fn = "validateCode" /\ call.done /\ call.result = TRUE
  /\ \E j, k \in 1..Len(call.code) : call.code[j] = "a" /\ call.code[k] = "-"

\* C16: the result of normalizeCode validates exactly as its argument does.
NormalizePreservesValidity ==
  (call.fn = "normalizeCode" /\ call.done)
  => validateCode(call.result) = validateCode(call.code)

\* an invalid code that normalization changes
NormalizeWitness ==
  /\ call.fn = "normalizeCode" /\ call.done
  /\ call.result # call.code
  /\ \E j, k \in 1..Len(call.code) : call.code[j] = "o" /\ call.code[k] = "-"
  /\ ~validateCode(call.result)

\* every invocation has finished
AllDone(r) == \A p \in Invocations : r[p].pc = "done"

\* C17 as stated: whatever the interleaving of the reads and the writes of
\* overlapping reveal invocations, a target revealed in the session file is
\* revealed in it after every later write, and once all invocations have
\* finished every target an invocation revealed is revealed in the file.
RevealOneWayOverlapping ==
  [][/\ \A id \in DOMAIN files :
          \A k \in 1..Len(files[id].targets) :
            files[id].targets[k].revealed
            => /\ id \in DOMAIN files'
               /\ k <= Len(files'[id].targets)
               /\ files'[id].targets[k].revealed
     /\ AllDone(running')
        => \A p \in Invocations :
             running'[p].saved
             => files'[running'[p].session.id].targets[running'[p].index].revealed]_vars

\* C17 amended: a write of an invocation that read the session after the
\* latest write to it keeps every revealed target revealed; every write
\* leaves its own target revealed; only a write of an invocation that read
\* before another invocation wrote can write a revealed target back as
\* unrevealed; nothing but a write changes the store.
RevealLastWriterWins ==
  [][/\ \A p \in Invocations :
          (running[p].pc = "save" /\ running'[p].pc = "done")
          => LET id == running[p].session.id
             IN /\ DOMAIN files' = DOMAIN files
                /\ files'[id].targets[running[p].index].revealed
                /\ Present(files'[id].targets[running[p].index].revealedAt)
                /\ ~running[p].stale
                   => \A k \in 1..Len(files[id].targets) :
                        files[id].targets[k].revealed
                        => files'[id].targets[k].revealed
     /\ (\A p \in Invocations : ~(running[p].pc = "save" /\ running'[p].pc = "done"))
        => files' = files]_vars

\* the lost update: two invocations wrote, the later writer had read before
\* the earlier one wrote, and the earlier writer's target is unrevealed
RevealLastWriterWinsWitness ==
  /\ AllDone(running)
  /\ \E p, q \in Invocations :
       /\ p # q
       /\ running[p].saved /\ running[p].stale
       /\ running[q].saved /\ ~running[q].stale
       /\ running[q].index # running[p].index
       /\ files[running[p].session.id].targets[running[p].index].revealed
       /\ ~files[running[q].session.id].targets[running[q].index].revealed

====
